---- MODULE Spec2Model ----
(***************************************************************************)
(* Model of src/Gnews_backend.py: the feed fetcher (fetch_news), the       *)
(* per-topic-per-day article cache, the summary cache, the prompt store    *)
(* and the per-user conversation history, as driven by the query handler   *)
(* get_news_summaries.                                                     *)
(*                                                                         *)
(* Text is a sequence of one-character strings, so that strip, lower,      *)
(* sanitising and substring search are computed and not assumed.  Time is  *)
(* counted in ticks, DayLen ticks to a calendar day; a datetime is a clock *)
(* value with an optional zone offset, as in Python.                       *)
(***************************************************************************)
EXTENDS Integers, Sequences, FiniteSets, TLC

\* ------------------------------------------------------------------ text

Lowercase == <<"a","b","c","d","e","f","g","h","i","j","k","l","m","n","o","p","q","r","s","t","u","v","w","x","y","z">>
Uppercase == <<"A","B","C","D","E","F","G","H","I","J","K","L","M","N","O","P","Q","R","S","T","U","V","W","X","Y","Z">>
Digits == {"0","1","2","3","4","5","6","7","8","9"}
Whitespace == {" ", "\t", "\n"}

Range(s) == {s[i] : i \in DOMAIN s}

\* str.lower() on one character.
LowerChar(c) ==
    IF \E i \in DOMAIN Uppercase : Uppercase[i] = c
    THEN Lowercase[CHOOSE i \in DOMAIN Uppercase : Uppercase[i] = c]
    ELSE c

\* str.lower()
Lower(s) == [i \in DOMAIN s |-> LowerChar(s[i])]

\* str.strip(): leading and trailing whitespace removed.
Strip(s) ==
    LET keep == {i \in DOMAIN s : s[i] \notin Whitespace}
    IN  IF keep = {} THEN <<>>
        ELSE LET lo == CHOOSE i \in keep : \A j \in keep : i <= j
                 hi == CHOOSE i \in keep : \A j \in keep : j <= i
             IN  SubSeq(s, lo, hi)

\* The characters re.sub(r'[^\w\s.,!?]', '', text) keeps.
IsKept(c) ==
    \/ c \in Range(Lowercase) \/ c \in Range(Uppercase) \/ c \in Digits \/ c = "_"
    \/ c \in Whitespace
    \/ c \in {".", ",", "!", "?"}

\* ' '.join(text.split()): whitespace runs become one blank, none at the ends.
\* A whitespace character stays, as a blank, when it opens a run that has a
\* word before it and a word after it.
JoinSplit(s) ==
    LET Word(i) == s[i] \notin Whitespace
        Stays(i) ==
            \/ Word(i)
            \/ i > 1 /\ Word(i - 1) /\ \E j \in (i + 1)..Len(s) : Word(j)
        places == {i \in DOMAIN s : Stays(i)}
        Place(k) == CHOOSE i \in places : Cardinality({j \in places : j <= i}) = k
    IN  [k \in 1..Cardinality(places) |->
            IF Word(Place(k)) THEN s[Place(k)] ELSE " "]

sanitize_input(text) == JoinSplit(SelectSeq(text, IsKept))

\* Python's `sub in s` for strings.
Contains(s, sub) ==
    \E k \in 0..(Len(s) - Len(sub)) : SubSeq(s, k + 1, k + Len(sub)) = sub

\* --------------------------------------------------------- feed registry

allowed_topics ==
    << "hr strategy and leadership",
       "workforce compliance and regulation",
       "talent acquisition and labor trends",
       "compensation, benefits and rewards",
       "people development and culture" >>

\* The characters of a topic identifier.
Chars(topic) ==
    CASE topic = "hr strategy and leadership" ->
           <<"h","r"," ","s","t","r","a","t","e","g","y"," ","a","n","d"," ","l","e","a","d","e","r","s","h","i","p">>
      [] topic = "workforce compliance and regulation" ->
           <<"w","o","r","k","f","o","r","c","e"," ","c","o","m","p","l","i","a","n","c","e"," ","a","n","d"," ","r","e","g","u","l","a","t","i","o","n">>
      [] topic = "talent acquisition and labor trends" ->
           <<"t","a","l","e","n","t"," ","a","c","q","u","i","s","i","t","i","o","n"," ","a","n","d"," ","l","a","b","o","r"," ","t","r","e","n","d","s">>
      [] topic = "compensation, benefits and rewards" ->
           <<"c","o","m","p","e","n","s","a","t","i","o","n",","," ","b","e","n","e","f","i","t","s"," ","a","n","d"," ","r","e","w","a","r","d","s">>
      [] topic = "people development and culture" ->
           <<"p","e","o","p","l","e"," ","d","e","v","e","l","o","p","m","e","n","t"," ","a","n","d"," ","c","u","l","t","u","r","e">>
      [] OTHER -> <<"?">>

\* RSS_FEEDS: topic -> its feed sources, in registry order.
RSS_FEEDS(topic) ==
    CASE topic = "hr strategy and leadership" ->
           << [name |-> "HR Executive", url |-> "https://hrexecutive.com/feed/"],
              [name |-> "Harvard Business Review - Leadership", url |-> "https://hbr.org/feed/section/leadership"],
              [name |-> "HR Dive - Strategy", url |-> "https://www.hrdive.com/rss/strategy/"],
              [name |-> "SHRM - Executive HR", url |-> "https://www.shrm.org/rss/feed.aspx?category=executive"],
              [name |-> "HR Grapevine", url |-> "https://www.hrgrapevine.com/rss"] >>
      [] topic = "workforce compliance and regulation" ->
           << [name |-> "EEOC Newsroom", url |-> "https://www.eeoc.gov/newsroom/rss.xml"],
              [name |-> "HR Dive - Compliance", url |-> "https://www.hrdive.com/rss/compliance/"],
              [name |-> "SHRM - Legal Issues", url |-> "https://www.shrm.org/rss/feed.aspx?category=legal"],
              [name |-> "Law360 - Employment", url |-> "https://www.law360.com/employment-authority/rss"] >>
      [] topic = "talent acquisition and labor trends" ->
           << [name |-> "ERE Media", url |-> "https://www.eremedia.com/rss"],
              [name |-> "HR Dive - Talent Acquisition", url |-> "https://www.hrdive.com/rss/talent-acquisition/"],
              [name |-> "Workology - Recruiting", url |-> "https://workology.com/category/recruiting/feed/"],
              [name |-> "Undercover Recruiter", url |-> "https://theundercoverrecruiter.com/feed/"] >>
      [] topic = "compensation, benefits and rewards" ->
           << [name |-> "BenefitsPRO", url |-> "https://www.benefitspro.com/rss/"],
              [name |-> "SHRM - Compensation & Benefits", url |-> "https://www.shrm.org/rss/feed.aspx?category=compensation"],
              [name |-> "HR Dive - Benefits", url |-> "https://www.hrdive.com/rss/benefits/"] >>
      [] topic = "people development and culture" ->
           << [name |-> "Chief Learning Officer", url |-> "https://www.chieflearningofficer.com/feed/"],
              [name |-> "HR Bartender", url |-> "https://www.hrbartender.com/feed/"],
              [name |-> "Workology - HR Development", url |-> "https://workology.com/category/hr/feed/"] >>
      [] OTHER -> << >>

TopicSet == Range(allowed_topics)

FeedUrls == UNION {{RSS_FEEDS(t)[i].url : i \in DOMAIN RSS_FEEDS(t)} : t \in TopicSet}

\* ------------------------------------------------------------- datetimes

\* Ticks in one calendar day (timedelta(days=1)).
DayLen == 2

\* A datetime: its clock value, and its zone offset when it is aware.
Naive(t) == [clock |-> t, aware |-> FALSE, off |-> 0]
Aware(t, o) == [clock |-> t, aware |-> TRUE, off |-> o]

\* Midnight of the day of clock value t: now.replace(hour=0, minute=0, ...).
Midnight(t) == t - (t % DayLen)

\* The day number of a clock value: strftime('%Y-%m-%d').
DayOf(t) == t \div DayLen

\* Python compares two naive datetimes, and two aware ones of the same zone,
\* by clock value, two aware ones of different zones by their instants, and
\* refuses (TypeError) to compare a naive with an aware one.
Comparable(a, b) == a.aware = b.aware
Instant(d) == d.clock - d.off
DtLess(a, b) == Instant(a) < Instant(b)
DtLeq(a, b) == Instant(a) <= Instant(b)

\* --------------------------------------------------------------- fetcher

\* stop_after_attempt(3) of the retry decorators (lines 124 and 203).
StopAfterAttempt == 3

\* A raw feed entry is [title, link, summary, published]; published is
\* [kind, dt] with kind "absent" (no such field), "garbage" (dateutil cannot
\* parse it) or "date" (parsed to dt).  A feed's content, as seen by one
\* feedparser.parse call, is [ok, entries]; ok = FALSE is a parse that raises.
\* A world maps every feed url to the content it serves.
NoPublished == [kind |-> "absent", dt |-> Naive(0)]
BadPublished == [kind |-> "garbage", dt |-> Naive(0)]
Published(dt) == [kind |-> "date", dt |-> dt]

\* target_date: None, a string strptime rejects, or the date of a day.
NoDate == [kind |-> "none", day |-> 0]
BadDate == [kind |-> "bad", day |-> 0]
Date(d) == [kind |-> "date", day |-> d]

\* match_tz that returns dt as it is.
match_tz_identity(dt, ref_dt) == dt

\* match_tz: dt made naive or aware to match ref_dt, its clock value kept.
match_tz(dt, ref_dt) ==
    IF dt.aware /\ ~ref_dt.aware THEN Naive(dt.clock)
    ELSE IF ~dt.aware /\ ref_dt.aware THEN Aware(dt.clock, ref_dt.off)
    ELSE dt

\* The window set up before the loop (lines 144-154).
Window(per_day, target_date, days_lookback, now) ==
    LET today == Naive(Midnight(now))
        day_start == IF per_day /\ target_date.kind = "date"
                     THEN Naive(target_date.day * DayLen)
                     ELSE today
    IN  [ day_start |-> day_start,
          day_end |-> Naive(day_start.clock + DayLen),
          lookback_start |-> Naive(now - days_lookback * DayLen) ]

\* published_dt of an entry (lines 164-171).
PublishedDt(entry, now) ==
    IF entry.published.kind = "date" THEN entry.published.dt ELSE Naive(now)

\* The date filter of lines 173-181: "in", "out", or "raise" when Python
\* would refuse the comparison.
DateFilter(published_dt, per_day, w) ==
    IF per_day
    THEN LET ds == match_tz(w.day_start, published_dt)
             de == match_tz(w.day_end, published_dt)
         IN  IF ~Comparable(ds, published_dt) THEN "raise"
             ELSE IF ~DtLeq(ds, published_dt) THEN "out"
             ELSE IF ~Comparable(published_dt, de) THEN "raise"
             ELSE IF DtLess(published_dt, de) THEN "in" ELSE "out"
    ELSE LET lbs == match_tz(w.lookback_start, published_dt)
         IN  IF ~Comparable(published_dt, lbs) THEN "raise"
             ELSE IF DtLess(published_dt, lbs) THEN "out" ELSE "in"

\* SkipTitle looking the title up as it is written (no .lower()).
SkipTitleCaseSensitive(title, seen_titles) == title = <<>> \/ title \in seen_titles

\* Whether the title of an entry is skipped at line 162.
SkipTitle(title, seen_titles) == title = <<>> \/ Lower(title) \in seen_titles

\* SeenAfter recording the title as it is written.
SeenAfterExact(seen_titles, title) == seen_titles \cup {title}

\* seen_titles after line 182.
SeenAfter(seen_titles, title) == seen_titles \cup {Lower(title)}

\* The article built at lines 183-190.
MakeArticle(title, entry, feed, published_dt) ==
    [ title |-> title,
      url |-> entry.link,
      description |-> entry.summary,
      content |-> entry.summary,
      source |-> [name |-> feed.name, feed_url |-> feed.url],
      publishedAt |-> published_dt ]

\* The loop over one feed's entries (lines 160-193), from entry j on.  st is
\* [articles, seen_titles, parses, raised]: the list and the set of the code,
\* the number of feedparser.parse calls made, and whether an exception left
\* the feed's try block.
RECURSIVE EntryLoop(_, _, _, _, _)
EntryLoop(entries, j, feed, a, st) ==
    IF j > Len(entries) THEN st
    ELSE LET entry == entries[j]
             title == Strip(entry.title)
         IN  IF SkipTitle(title, st.seen_titles)
             THEN EntryLoop(entries, j + 1, feed, a, st)
             ELSE LET published_dt == PublishedDt(entry, a.now)
                      verdict == DateFilter(published_dt, a.per_day, a.window)
                  IN  IF verdict = "raise" THEN [st EXCEPT !.raised = TRUE]
                      ELSE IF verdict = "out"
                      THEN EntryLoop(entries, j + 1, feed, a, st)
                      ELSE LET articles == Append(st.articles,
                                              MakeArticle(title, entry, feed, published_dt))
                               st2 == [st EXCEPT !.articles = articles,
                                                 !.seen_titles = SeenAfter(@, title)]
                           IN  IF ~a.per_day /\ Len(articles) >= a.max_results
                               THEN st2
                               ELSE EntryLoop(entries, j + 1, feed, a, st2)

\* FeedLoop giving up at the first feed whose parse raises (the except of
\* line 196 breaking out of the loop).
RECURSIVE FeedLoopStopping(_, _, _, _)
FeedLoopStopping(feeds, i, a, st) ==
    IF i > Len(feeds) THEN st
    ELSE LET feed == feeds[i]
             content == a.world[feed.url]
             st1 == [st EXCEPT !.parses = @ + 1]
         IN  IF ~content.ok THEN st1
             ELSE LET st2 == EntryLoop(content.entries, 1, feed, a, st1)
                  IN  IF st2.raised THEN [st2 EXCEPT !.raised = FALSE]
                      ELSE IF ~a.per_day /\ Len(st2.articles) >= a.max_results
                      THEN st2
                      ELSE FeedLoopStopping(feeds, i + 1, a, st2)

\* The loop over the feeds (lines 155-198), from feed i on.  A feed whose
\* parse raises, or in which a comparison raises, is left at that point and
\* the next feed is taken (lines 196-198); the break of line 194 is reached
\* only when the feed's entries were gone through without an exception.
RECURSIVE FeedLoop(_, _, _, _)
FeedLoop(feeds, i, a, st) ==
    IF i > Len(feeds) THEN st
    ELSE LET feed == feeds[i]
             content == a.world[feed.url]
             st1 == [st EXCEPT !.parses = @ + 1]
         IN  IF ~content.ok THEN FeedLoop(feeds, i + 1, a, st1)
             ELSE LET st2 == EntryLoop(content.entries, 1, feed, a, st1)
                  IN  IF st2.raised
                      THEN FeedLoop(feeds, i + 1, a, [st2 EXCEPT !.raised = FALSE])
                      ELSE IF ~a.per_day /\ Len(st2.articles) >= a.max_results
                      THEN st2
                      ELSE FeedLoop(feeds, i + 1, a, st2)

\* topic.lower() for the topic arguments the model passes.
LowerTopic(topic) ==
    IF topic = "Compensation, Benefits and Rewards"
    THEN "compensation, benefits and rewards" ELSE topic

\* The topic argument None: topic.lower() raises at line 132.
NoneTopic == "<None>"

\* FetchBody without the try of lines 158-198: a feed whose parse raises
\* makes the attempt raise.
FetchBodyUnguarded(topic, max_results, days_lookback, per_day, target_date, now, world) ==
    LET feeds == RSS_FEEDS(LowerTopic(topic))
        a == [ per_day |-> per_day, max_results |-> max_results, now |-> now,
               world |-> world,
               window |-> Window(per_day, target_date, days_lookback, now) ]
        st == FeedLoop(feeds, 1, a,
                 [articles |-> <<>>, seen_titles |-> {}, parses |-> 0, raised |-> FALSE])
    IN  IF topic = NoneTopic \/ \E i \in 1..Len(feeds) : ~world[feeds[i].url].ok
        THEN [raised |-> TRUE, articles |-> <<>>, parses |-> 1]
        ELSE [raised |-> FALSE, articles |-> st.articles, parses |-> st.parses]

\* One attempt of fetch_news, lines 132-201, at clock value now against the
\* feeds' content world: [raised, articles, parses].  Every exception of the
\* feed loop is caught at line 196; the attempt raises only outside the loop,
\* at line 132 when topic is None.
FetchBody(topic, max_results, days_lookback, per_day, target_date, now, world) ==
    IF topic = NoneTopic THEN [raised |-> TRUE, articles |-> <<>>, parses |-> 0]
    ELSE LET feeds == RSS_FEEDS(LowerTopic(topic))
             a == [ per_day |-> per_day, max_results |-> max_results, now |-> now,
                    world |-> world,
                    window |-> Window(per_day, target_date, days_lookback, now) ]
             st == FeedLoop(feeds, 1, a,
                      [articles |-> <<>>, seen_titles |-> {}, parses |-> 0,
                       raised |-> FALSE])
         IN  [raised |-> FALSE, articles |-> st.articles, parses |-> st.parses]

\* The retry of line 124 around the body: attempt k, after `parses` calls of
\* feedparser.parse in the attempts before it.
RECURSIVE FetchAttempt(_, _, _, _, _, _, _, _, _)
FetchAttempt(topic, max_results, days_lookback, per_day, target_date, now, world, k, parses) ==
    LET r == FetchBody(topic, max_results, days_lookback, per_day, target_date, now, world)
    IN  IF ~r.raised
        THEN [articles |-> r.articles, parses |-> parses + r.parses,
              attempts |-> k, raised |-> FALSE]
        ELSE IF k >= StopAfterAttempt
        THEN [articles |-> <<>>, parses |-> parses + r.parses,
              attempts |-> k, raised |-> TRUE]
        ELSE FetchAttempt(topic, max_results, days_lookback, per_day, target_date,
                          now, world, k + 1, parses + r.parses)

\* fetch_news(topic, max_results, days_lookback, per_day, target_date) called
\* at clock value now: [articles, parses, attempts, raised]; raised is the
\* RetryError after the last attempt.
fetch_news(topic, max_results, days_lookback, per_day, target_date, now, world) ==
    FetchAttempt(topic, max_results, days_lookback, per_day, target_date, now, world, 1, 0)

\* ------------------------------------------------------- the four stores

VARIABLES
    prompt_cache,          \* <<filepath, prompt_key>> -> prompt text
    news_cache,            \* <<topic, day>> -> article list
    summary_cache,         \* <<title, topic>> -> summary text
    conversation_history,  \* user id -> list of entries
    clock,                 \* the wall clock (datetime.now()), in ticks
    stamp,                 \* calls of get_news_summaries completed so far
    result,                \* what the last call returned
    trace,                 \* what the last call did (calls made, list used)
    first_stored,          \* <<topic, day>> -> the list first stored for it
    appended,              \* user id -> every entry ever appended for the user
    stored_at,             \* <<topic, day>> -> the clock when line 259 stored it
    threads,               \* the calls in progress of a run with concurrent callers
    probe,                 \* results of direct fetch_news calls
    scenario               \* the kind of run

vars == << prompt_cache, news_cache, summary_cache, conversation_history,
           clock, stamp, result, trace, first_stored, appended, stored_at, threads,
           probe, scenario >>

\* A dict as a function: lookup with default, insertion, deletion.
Has(d, k) == k \in DOMAIN d
Put(d, k, v) == [x \in DOMAIN d \cup {k} |-> IF x = k THEN v ELSE d[x]]
Restrict(d, keys) == [x \in DOMAIN d \cap keys |-> d[x]]
EmptyDict == [x \in {} |-> 0]

\* The last n elements of a list: s[-n:] for n > 0.
LastN(s, n) == IF Len(s) <= n THEN s ELSE SubSeq(s, Len(s) - n + 1, Len(s))

\* Truthy as `user_id is not None`.
NotNone(user_id) == user_id # "<None>"

\* user_id is None, or a string; `if user_id:` holds for a non-empty string.
NoneId == "<None>"
Truthy(user_id) == user_id \notin {NoneId, ""}

\* ---------------------------------------------------------- prompt store

\* load_prompt falling back to an empty prompt when the file cannot be read.
load_prompt_with_fallback(cache, filepath, prompt_key, read) ==
    LET cache_key == <<filepath, prompt_key>>
    IN  IF cache_key \in DOMAIN cache
        THEN [raised |-> FALSE, prompt |-> cache[cache_key], cache |-> cache,
              opened |-> FALSE]
        ELSE [raised |-> FALSE, prompt |-> read.text,
              cache |-> [x \in DOMAIN cache \cup {cache_key} |->
                            IF x = cache_key THEN read.text ELSE cache[x]],
              opened |-> TRUE]

\* load_prompt(filepath, prompt_key) against the store `cache`, the file read
\* (when it comes to one) ending as `read` = [ok, text]:
\* [raised, prompt, cache, opened].
load_prompt(cache, filepath, prompt_key, read) ==
    LET cache_key == <<filepath, prompt_key>>
    IN  IF Has(cache, cache_key)
        THEN [raised |-> FALSE, prompt |-> cache[cache_key], cache |-> cache,
              opened |-> FALSE]
        ELSE IF read.ok
        THEN [raised |-> FALSE, prompt |-> read.text,
              cache |-> Put(cache, cache_key, read.text), opened |-> TRUE]
        ELSE [raised |-> TRUE, prompt |-> "", cache |-> cache, opened |-> TRUE]

\* ------------------------------------------------ summarizer, classifier


RECURSIVE Concat(_)
Concat(chunks) == IF chunks = <<>> THEN <<>> ELSE Head(chunks) \o Concat(Tail(chunks))

\* The model identifier the call is made with (lines 211-212).
EffectiveModel(model) ==
    IF model \in {"<None>", "", " ", "gpt-3.5-turbo"} THEN "gpt-4-turbo" ELSE model

\* summarize_article under its retry: responses[k] = [ok, chunks] is how the
\* k-th attempt ends.  The first attempt that succeeds returns the stripped
\* concatenation of its chunks; after StopAfterAttempt failures the call raises.
RECURSIVE Attempt(_, _)
Attempt(responses, k) ==
    IF responses[k].ok
    THEN [raised |-> FALSE, text |-> Strip(Concat(responses[k].chunks)), attempts |-> k]
    ELSE IF k >= StopAfterAttempt
    THEN [raised |-> TRUE, text |-> <<>>, attempts |-> k]
    ELSE Attempt(responses, k + 1)

\* summarize_article swallowing the failure of its last attempt: it returns
\* the empty text where it should raise.
summarize_article_swallowing(responses) ==
    [Attempt(responses, 1) EXCEPT !.raised = FALSE]

summarize_article(responses) == Attempt(responses, 1)

topic_map(topic) ==
    CASE topic = "hr strategy and leadership" -> <<"L","e","a","d","e","r","s","h","i","p">>
      [] topic = "workforce compliance and regulation" -> <<"C","o","m","p","l","i","a","n","c","e">>
      [] topic = "talent acquisition and labor trends" -> <<"T","a","l","e","n","t">>
      [] topic = "compensation, benefits and rewards" -> <<"C","o","m","p","e","n","s","a","t","i","o","n">>
      [] topic = "people development and culture" -> <<"C","u","l","t","u","r","e">>
      [] OTHER -> <<"G","e","n","e","r","a","l">>

TagSet == {topic_map(t) : t \in TopicSet}

\* get_topic_tag returning whatever the classifier answered.
get_topic_tag_unchecked(matched_topic, responses) ==
    IF responses[1].ok THEN Strip(responses[1].text) ELSE topic_map(matched_topic)

\* get_topic_tag, where responses[k] = [ok, text] is how a k-th call of the
\* classifier would end.  The function makes one call (line 77) under no
\* retry: the first answer, stripped, when it is one of the five tags, and the
\* topic's default tag when it is not or when the call fails.
get_topic_tag(matched_topic, responses) ==
    LET default_tag == topic_map(matched_topic)
        response == responses[1]
        detected_tag == Strip(response.text)
    IN  IF response.ok /\ detected_tag \in TagSet THEN detected_tag ELSE default_tag

\* -------------------------------------------------------- query handler

NoTopic == ""

\* ResolveTopic taking the last topic of allowed_topics that occurs.
ResolveTopicLast(query) ==
    LET hits == {i \in DOMAIN allowed_topics :
                    Contains(Lower(query), Lower(Chars(allowed_topics[i])))}
    IN  IF hits = {} THEN NoTopic
        ELSE allowed_topics[CHOOSE i \in hits : \A j \in hits : j <= i]

\* The first topic, in the order of allowed_topics, whose identifier occurs
\* in the query, both lower-cased (line 248); NoTopic when none does.
ResolveTopic(query) ==
    LET hits == {i \in DOMAIN allowed_topics :
                    Contains(Lower(query), Lower(Chars(allowed_topics[i])))}
    IN  IF hits = {} THEN NoTopic
        ELSE allowed_topics[CHOOSE i \in hits : \A j \in hits : i <= j]

\* The user inputs of the model.
AskCompensation == <<"T","e","l","l"," ","m","e"," ","a","b","o","u","t"," ","c","o","m","p","e","n","s","a","t","i","o","n",","," ","b","e","n","e","f","i","t","s"," ","a","n","d"," ","r","e","w","a","r","d","s"," ","p","l","e","a","s","e">>
AskLeadership == <<"H","R"," ","S","t","r","a","t","e","g","y"," ","a","n","d"," ","L","e","a","d","e","r","s","h","i","p","!">>
AskNews == <<"w","h","a","t","'","s"," ","n","e","w">>
AskSymbols == <<"@","#","$","%">>
AskBlank == <<" "," "," ">>

\* Two identifiers, the later of the registry first; characters the
\* sanitizer removes inside an identifier; a run of whitespace inside one; a
\* hyphen for a blank; the comma left out.
AskTwoTopics == <<"P","e","o","p","l","e"," ","D","e","v","e","l","o","p","m","e","n","t"," ","a","n","d"," ","C","u","l","t","u","r","e",","," ","o","r"," ","H","R"," ","s","t","r","a","t","e","g","y"," ","a","n","d"," ","l","e","a","d","e","r","s","h","i","p","?">>
AskMarked == <<"h","r"," ","s","t","r","a","t","@","e","g","y"," ","a","n","d"," ","l","e","a","d","e","r","#","s","h","i","p">>
AskSpaced == <<" ","w","o","r","k","f","o","r","c","e"," "," ","c","o","m","p","l","i","a","n","c","e","\t","a","n","d"," ","r","e","g","u","l","a","t","i","o","n"," ">>
AskHyphen == <<"t","a","l","e","n","t","-","a","c","q","u","i","s","i","t","i","o","n"," ","a","n","d"," ","l","a","b","o","r"," ","t","r","e","n","d","s">>
AskNoComma == <<"c","o","m","p","e","n","s","a","t","i","o","n"," ","b","e","n","e","f","i","t","s"," ","a","n","d"," ","r","e","w","a","r","d","s">>

AllInputs ==
    { AskCompensation, AskLeadership, AskNews, AskSymbols, AskBlank,
      AskTwoTopics, AskMarked, AskSpaced, AskHyphen, AskNoComma }

\* Lines 234-248 on a user input: whether line 234 rejects it, the query, and
\* the topic the query resolves to.
Understand(user_input) ==
    LET query == sanitize_input(user_input)
    IN  [ blank |-> Strip(user_input) = <<>>,
          query |-> query,
          topic |-> ResolveTopic(query) ]

\* Understand, computed once for each input of the model.
Understood == [user_input \in AllInputs |-> Understand(user_input)]
Reading(user_input) == Understood[user_input]

\* CacheKey keyed by the clock value (a format with the time of day in it).
CacheKeyByInstant(topic, now) == <<topic, now>>

\* CacheKey without the topic: one entry a day for all topics.
CacheKeyDayOnly(topic, now) == <<"any", DayOf(now)>>

\* The article cache's key for a topic at clock value now (line 252).
CacheKey(topic, now) == <<topic, DayOf(now)>>

\* Stale without the day of grace (timedelta(days=0)).
StaleAtOnce(key, now) == now - key[2] * DayLen > 0

\* Whether the sweep deletes the key, run at clock value now (lines 262-263).
Stale(key, now) == now - key[2] * DayLen > DayLen

\* Sweep that deletes nothing.
SweepKeepsAll(cache, now) == cache

\* The sweep of lines 261-264.
Sweep(cache, now) == Restrict(cache, {k \in DOMAIN cache : ~Stale(k, now)})

\* ArticleHit that takes an empty list for a miss.
ArticleHitNonEmpty(cache, cache_key) == Has(cache, cache_key) /\ cache[cache_key] # <<>>

\* ArticleHit that never finds the key.
ArticleHitNever(cache, cache_key) == FALSE

\* Line 253.
ArticleHit(cache, cache_key) == Has(cache, cache_key)

\* SummaryHit that never finds the key.
SummaryNeverHit(cache, article_key) == FALSE

\* Line 275.
SummaryHit(cache, article_key) == Has(cache, article_key)

\* The record of a cache hit (lines 277-284) and of a fresh summary (290-298).
CachedRecord(article, summary) ==
    [ title |-> article.title, url |-> article.url, summary |-> summary,
      source |-> article.source.name, published_at |-> article.publishedAt,
      cached |-> TRUE ]

FreshRecord(article, summary, tag) ==
    [ title |-> article.title, url |-> article.url, summary |-> summary,
      source |-> article.source.name, published_at |-> article.publishedAt,
      tag |-> tag, cached |-> FALSE ]

\* The loop of lines 272-301 from article i on, as the set of the ways it may
\* end: for an article that misses the summary cache the summarizer answers
\* in one of the ways E.summ (one response per attempt), and for one it
\* summarized the classifier in one of the ways E.tags.  st is [summaries,
\* cache, summ_calls, tag_calls, tag_log]: the list and the summary cache of
\* the code, and the calls made so far; tag_log has, for each call of
\* get_topic_tag, the answers the classifier had ready, whether the summary
\* cache held the article's key when the call was made, and the tag returned.
RECURSIVE SummaryLoop(_, _, _, _, _)
SummaryLoop(articles, i, matched_topic, E, st) ==
    IF i > Len(articles) THEN {st}
    ELSE LET article == articles[i]
             article_key == <<article.title, matched_topic>>
             Fresh(responses) ==
                 LET r == summarize_article(responses)
                     call == [title |-> article.title, responses |-> responses,
                              attempts |-> r.attempts, raised |-> r.raised]
                 IN  IF r.raised
                     THEN SummaryLoop(articles, i + 1, matched_topic, E,
                              [st EXCEPT !.summ_calls = Append(@, call)])
                     ELSE LET stored == Put(st.cache, article_key, r.text)
                              Tagged(answers) ==
                                  LET tag == get_topic_tag(matched_topic, answers)
                                  IN  SummaryLoop(articles, i + 1, matched_topic, E,
                                        [ summaries |-> Append(st.summaries,
                                              FreshRecord(article, r.text, tag)),
                                          cache |-> stored,
                                          summ_calls |-> Append(st.summ_calls, call),
                                          tag_calls |-> Append(st.tag_calls, article.title),
                                          tag_log |-> Append(st.tag_log,
                                              [ title |-> article.title,
                                                answers |-> answers,
                                                stored |-> Has(stored, article_key),
                                                tag |-> tag ]) ])
                          IN  UNION { Tagged(answers) : answers \in E.tags }
         IN  IF SummaryHit(st.cache, article_key)
             THEN SummaryLoop(articles, i + 1, matched_topic, E,
                      [st EXCEPT !.summaries =
                           Append(@, CachedRecord(article, st.cache[article_key]))])
             ELSE UNION { Fresh(responses) : responses \in E.summ }

\* The cap of the history list (line 312).
HistoryCap == 10

\* AppendHistory cutting the list to its first entries ([:10] for [-10:]).
AppendHistoryKeepsOldest(history, user_id, entry) ==
    LET old == IF Has(history, user_id) THEN history[user_id] ELSE <<>>
        new == Append(old, entry)
    IN  Put(history, user_id,
            IF Len(new) <= HistoryCap THEN new ELSE SubSeq(new, 1, HistoryCap))

\* Lines 303-312: the entry appended to the user's list, the list cut to its
\* last HistoryCap entries.
AppendHistory(history, user_id, entry) ==
    LET old == IF Has(history, user_id) THEN history[user_id] ELSE <<>>
    IN  Put(history, user_id, LastN(Append(old, entry), HistoryCap))

InvalidInput == "Please provide a valid topic or query."
UnknownTopic == "Please specify one of: hr strategy and leadership, workforce compliance and regulation, talent acquisition and labor trends, compensation, benefits and rewards, people development and culture"
NoArticles == "No articles found for topic: "
PromptLoadFailure == "Failed to load summarization prompt."

Error(message, topic) == [status |-> "error", message |-> message, about |-> topic]

\* fetch_news' defaults (line 125).
DefaultMaxResults == 15
DefaultDaysLookback == 30

NoTrace ==
    [ user_id |-> NoneId, input |-> <<>>, topic |-> NoTopic, day |-> 0, known |-> FALSE, hit |-> FALSE,
      fetches |-> 0, parses |-> 0, articles |-> <<>>, opened |-> FALSE,
      read_ok |-> FALSE, looped |-> FALSE, model |-> "", summ_calls |-> <<>>,
      tag_calls |-> <<>>, tag_log |-> <<>> ]

\* The end of a call: the stores as the call leaves them, the clock at the
\* last time it was read, the result, and what the call did; app is <<>>, or
\* <<entry>> when line 305 appended entry for the call's user.
Return(t, nc, pc, sc, ch, res, tr, app) ==
    /\ clock' = t
    /\ stamp' = stamp + 1
    /\ news_cache' = nc
    /\ prompt_cache' = pc
    /\ summary_cache' = sc
    /\ conversation_history' = ch
    /\ result' = res
    /\ trace' = tr
    /\ first_stored' = IF tr.fetches > 0 /\ ~tr.known
                       THEN Put(first_stored, <<tr.topic, tr.day>>, tr.articles)
                       ELSE first_stored
    /\ appended' = IF app # <<>>
                   THEN Put(appended, tr.user_id,
                            Append(IF Has(appended, tr.user_id)
                                   THEN appended[tr.user_id] ELSE <<>>, app[1]))
                   ELSE appended
    /\ stored_at' = IF tr.fetches > 0
                    THEN Put(stored_at, <<tr.topic, tr.day>>, t)
                    ELSE stored_at
    /\ UNCHANGED << probe, threads >>

\* Lines 265-320: the call from the article list on.  t is the clock at the
\* last read so far, nc the article cache as lines 253-264 left it.
Summarize(query, matched_topic, articles, cached_articles, t, nc, tr, prompt_file, model, E) ==
    IF articles = <<>>
    THEN Return(t, nc, prompt_cache, summary_cache, conversation_history,
                Error(NoArticles, matched_topic), tr, <<>>)
    ELSE \E read \in E.reads :
           LET lp == load_prompt(prompt_cache, prompt_file, "NEWS_SUMMARIZER", read)
               tr1 == [tr EXCEPT !.opened = lp.opened, !.read_ok = read.ok]
           IN  IF lp.raised
               THEN Return(t, nc, prompt_cache, summary_cache, conversation_history,
                           Error(PromptLoadFailure, NoTopic), tr1, <<>>)
               ELSE \E st \in SummaryLoop(articles, 1, matched_topic, E,
                                  [ summaries |-> <<>>, cache |-> summary_cache,
                                    summ_calls |-> <<>>, tag_calls |-> <<>>,
                                    tag_log |-> <<>> ]) :
                      LET
                          summaries == st.summaries
                          entry == [ role |-> "user", content |-> query,
                                     timestamp |-> <<t, stamp>>,
                                     topic |-> matched_topic, summaries |-> summaries ]
                          tracked == Truthy(tr.user_id)
                          tr2 == [tr1 EXCEPT !.looped = TRUE,
                                             !.model = EffectiveModel(model),
                                             !.summ_calls = st.summ_calls,
                                             !.tag_calls = st.tag_calls,
                                             !.tag_log = st.tag_log]
                      IN  Return(t, nc, lp.cache, st.cache,
                                 IF tracked
                                 THEN AppendHistory(conversation_history, tr.user_id, entry)
                                 ELSE conversation_history,
                                 [ status |-> "success", topic |-> matched_topic,
                                   articles |-> summaries,
                                   cached_articles |-> cached_articles,
                                   total_articles |-> Len(summaries) ],
                                 tr2,
                                 IF tracked THEN <<entry>> ELSE <<>>)

\* get_news_summaries(user_input, user_id, prompt_file, model), called at the
\* current clock.  E is what the environment may do during the call:
\* E.worlds the feeds' content, E.elapse the ticks that may pass between two
\* reads of the clock, E.reads how reading the prompt file may end, E.summ
\* and E.tags how the summarizer and the classifier may answer; E.until is
\* the last tick of the model.
get_news_summaries(user_input, user_id, prompt_file, model, E) ==
    LET heard == Reading(user_input)
        query == heard.query
        matched_topic == heard.topic
        cache_key == CacheKey(matched_topic, clock)
        tr == [NoTrace EXCEPT !.user_id = user_id, !.input = user_input]
    IN  IF heard.blank \/ query = <<>>
        THEN Return(clock, news_cache, prompt_cache, summary_cache,
                    conversation_history, Error(InvalidInput, NoTopic), tr, <<>>)
        ELSE IF matched_topic = NoTopic
        THEN Return(clock, news_cache, prompt_cache, summary_cache,
                    conversation_history, Error(UnknownTopic, NoTopic), tr, <<>>)
        ELSE LET tr0 == [tr EXCEPT !.topic = matched_topic, !.day = DayOf(clock),
                                   !.known = Has(first_stored,
                                                 <<matched_topic, DayOf(clock)>>)]
             IN  IF ArticleHit(news_cache, cache_key)
                 THEN Summarize(query, matched_topic, news_cache[cache_key], TRUE,
                                clock, news_cache,
                                [tr0 EXCEPT !.hit = TRUE,
                                            !.articles = news_cache[cache_key]],
                                prompt_file, model, E)
                 ELSE \E world \in E.worlds, d1 \in E.elapse, d2 \in E.elapse :
                        LET t1 == clock + d1
                            t2 == t1 + d2
                            f == fetch_news(matched_topic, DefaultMaxResults,
                                            DefaultDaysLookback, TRUE, NoDate, t1, world)
                            articles == f.articles
                        IN  /\ t2 <= E.until
                            /\ Summarize(query, matched_topic, articles, FALSE, t2,
                                         Sweep(Put(news_cache, cache_key, articles), t2),
                                         [tr0 EXCEPT !.fetches = 1, !.parses = f.parses,
                                                     !.articles = articles],
                                         prompt_file, model, E)

\* ------------------------------------------------------------ environment

FeedDown == [ok |-> FALSE, entries |-> <<>>]
FeedOk(entries) == [ok |-> TRUE, entries |-> entries]

\* The place of a feed url in its topic's list.
FeedPlace ==
    [url \in FeedUrls |->
        CHOOSE i \in 1..5 : \E t \in TopicSet :
            i \in DOMAIN RSS_FEEDS(t) /\ RSS_FEEDS(t)[i].url = url]
FeedIndex(url) == FeedPlace[url]

\* An entry of a feed, and the entry as the j-th item of the i-th feed: its
\* link names its place.
Entry(title, published) ==
    [title |-> title, link |-> <<0, 0>>, summary |-> "text", published |-> published]

Placed(content, i) ==
    [ ok |-> content.ok,
      entries |-> [j \in DOMAIN content.entries |->
                      [content.entries[j] EXCEPT !.link = <<i, j>>]] ]

\* The world in which the i-th feed of every topic serves contents[i], and
\* the feeds past Len(contents) are down.
WorldOf(contents) ==
    [u \in FeedUrls |->
        IF FeedIndex(u) \in DOMAIN contents
        THEN Placed(contents[FeedIndex(u)], FeedIndex(u)) ELSE FeedDown]

\* The feeds of the handler's runs: all down; one undated article; a down
\* feed, then a title repeated across two feeds in another case, an empty
\* title, and an article dated on day 0.
FeedsOne == << FeedOk(<< Entry(<<"A">>, NoPublished) >>) >>
FeedsTwo ==
    << FeedDown,
       FeedOk(<< Entry(<<"A"," ">>, BadPublished), Entry(<<>>, NoPublished) >>),
       FeedOk(<< Entry(<<"a">>, NoPublished),
                 Entry(<<"b">>, Published(Aware(1, 1))) >>) >>

WorldDown == WorldOf(<<>>)
WorldOne == WorldOf(FeedsOne)
WorldTwo == WorldOf(FeedsTwo)

\* How one attempt of the summarizer, and the classifier, may answer.
Said(chunks) == [ok |-> TRUE, chunks |-> chunks]
Failed == [ok |-> FALSE, chunks |-> <<>>]
SummFirst == << Said(<< <<" ","s">>, <<>>, <<"1","\n">> >>), Failed, Failed >>
SummSecond == << Failed, Said(<< <<"s","2">> >>), Failed >>
SummNever == << Failed, Failed, Failed >>

\* The classifier's answers, one for each call that might be made of it: the
\* same every time, or a failure followed by answers.
Heard(text) == [ok |-> TRUE, text |-> text]
Unheard == [ok |-> FALSE, text |-> <<>>]
Every(response) == [k \in 1..StopAfterAttempt |-> response]
TagTalent == Every(Heard(<<" ","T","a","l","e","n","t","\n">>))
TagOther == Every(Heard(<<"B","e","n","e","f","i","t","s">>))
TagDown == Every(Unheard)
TagSecond == [TagTalent EXCEPT ![1] = Unheard]

PromptRead == [ok |-> TRUE, text |-> "You are an HR news summarizer."]
PromptMissing == [ok |-> FALSE, text |-> ""]

\* ---------------------------------------------------------- specifications

\* The calls of a run, the calls of a long run, and the last tick.
MaxRequests == 3
MaxLongRunRequests == 12
MaxClock == 3

\* What the callers and the environment may do in a run.  A run is of one of
\* five kinds, drawn at its start: in "caching" the feeds and the clock vary,
\* in "summaries" the summarizer and the prompt file do, in
\* "users" the user ids and the classifier do, in "inputs" the wording of
\* the input does, and "long run" is one caller after the other for
\* MaxLongRunRequests calls.
Scenarios == {"caching", "summaries", "users", "inputs", "long run"}

Env(kind) ==
    CASE kind = "caching" ->
           [ inputs |-> {AskCompensation, AskLeadership, AskNews},
             users |-> {NoneId},
             files |-> {"prompts.json"},
             worlds |-> {WorldDown, WorldOne, WorldTwo},
             elapse |-> {0, 1},
             reads |-> {PromptRead},
             summ |-> {SummFirst},
             tags |-> {TagTalent},
             requests |-> MaxRequests,
             until |-> MaxClock ]
      [] kind = "summaries" ->
           [ inputs |-> {AskCompensation},
             users |-> {"u1"},
             files |-> {"prompts.json", "prompts_v2.json"},
             worlds |-> {WorldOne, WorldTwo},
             elapse |-> {0},
             reads |-> {PromptRead, PromptMissing},
             summ |-> {SummFirst, SummSecond, SummNever},
             tags |-> {TagTalent},
             requests |-> MaxRequests,
             until |-> DayLen ]
      [] kind = "users" ->
           [ inputs |-> {AskCompensation, AskNews, AskSymbols, AskBlank},
             users |-> {NoneId, "", "u1", "u2"},
             files |-> {"prompts.json"},
             worlds |-> {WorldDown, WorldOne},
             elapse |-> {0},
             reads |-> {PromptRead, PromptMissing},
             summ |-> {SummFirst, SummNever},
             tags |-> {TagTalent, TagOther, TagDown, TagSecond},
             requests |-> MaxRequests,
             until |-> 0 ]
      [] kind = "inputs" ->
           [ inputs |-> AllInputs,
             users |-> {NoneId},
             files |-> {"prompts.json"},
             worlds |-> {WorldOne},
             elapse |-> {0},
             reads |-> {PromptRead},
             summ |-> {SummFirst},
             tags |-> {TagTalent},
             requests |-> MaxRequests,
             until |-> 0 ]
      [] kind = "long run" ->
           [ inputs |-> {AskCompensation},
             users |-> {"u1", "u2"},
             files |-> {"prompts.json"},
             worlds |-> {WorldOne},
             elapse |-> {0},
             reads |-> {PromptRead},
             summ |-> {SummFirst},
             tags |-> {TagTalent},
             requests |-> MaxLongRunRequests,
             until |-> 0 ]

Init ==
    /\ scenario \in Scenarios
    /\ prompt_cache = EmptyDict
    /\ news_cache = EmptyDict
    /\ summary_cache = EmptyDict
    /\ conversation_history = EmptyDict
    /\ clock = 0
    /\ stamp = 0
    /\ result = Error("", NoTopic)
    /\ trace = NoTrace
    /\ first_stored = EmptyDict
    /\ appended = EmptyDict
    /\ stored_at = EmptyDict
    /\ threads = <<>>
    /\ probe = <<>>

\* One call of the handler.
Query ==
    /\ stamp < Env(scenario).requests
    /\ \E user_input \in Env(scenario).inputs, user_id \in Env(scenario).users,
          prompt_file \in Env(scenario).files :
          get_news_summaries(user_input, user_id, prompt_file, "gpt-3.5-turbo",
                             Env(scenario))
    /\ UNCHANGED scenario

\* Time passes between two calls.
Tick ==
    /\ clock < Env(scenario).until
    /\ clock' = clock + 1
    /\ UNCHANGED << prompt_cache, news_cache, summary_cache, conversation_history,
                    stamp, result, trace, first_stored, appended, stored_at, threads,
                    probe, scenario >>

Next == Query \/ Tick

Spec == Init /\ [][Next]_vars

\* ------------------------------------------------- fetch_news on its own

\* The entries a feed world may hold over all its feeds, in a run that calls
\* fetch_news directly.
MaxEntries == 2

Titles == {<<>>, <<"A">>, <<"a", " ">>, <<"b">>}

\* The ticks around day 1: the last of day 0, the first and the last of day
\* 1, the first of day 2.
Boundaries == {DayLen - 1, DayLen, 2 * DayLen - 1, 2 * DayLen}

\* A run of fetch_news is of one of four kinds: in "titles" the titles of
\* the entries vary, in "window" their published timestamps, in "topics" the
\* topic argument and the clock, in "outages" the feeds whose parse raises.
FetchKinds == {"titles", "window", "topics", "outages"}

EntriesOf(kind) ==
    IF kind = "titles"
    THEN {Entry(t, p) : t \in Titles,
                        p \in {NoPublished, Published(Naive(DayLen - 1))}}
    ELSE IF kind = "outages"
    THEN {Entry(<<"A">>, NoPublished), Entry(<<"b">>, NoPublished)}
    ELSE {Entry(<<"A">>, Published(dt)) :
              dt \in {Naive(t) : t \in Boundaries} \cup {Aware(t, 1) : t \in Boundaries}}
         \cup {Entry(<<"b">>, Published(dt)) :
                  dt \in {Naive(DayLen), Aware(2 * DayLen - 1, 0), Aware(2 * DayLen, 0)}}

\* Three feeds that parse, holding at most n entries between them.
NoFeeds == << FeedOk(<<>>), FeedOk(<<>>), FeedOk(<<>>) >>
AddEntry(feeds, i, e) == [feeds EXCEPT ![i] = FeedOk(Append(@.entries, e))]

RECURSIVE FeedsUpTo(_, _)
FeedsUpTo(entries, n) ==
    IF n = 0 THEN {NoFeeds}
    ELSE LET less == FeedsUpTo(entries, n - 1)
         IN  less \cup {AddEntry(f, i, e) : f \in less, i \in 1..3, e \in entries}

\* The feeds with those of the set down failing to parse.
Outage(feeds, down) == [i \in 1..3 |-> IF i \in down THEN FeedDown ELSE feeds[i]]

FeedsOf(kind) ==
    IF kind = "topics" THEN {<<>>, FeedsOne, FeedsTwo}
    ELSE IF kind = "outages"
    THEN {Outage(f, down) : f \in FeedsUpTo(EntriesOf(kind), MaxEntries),
                            down \in SUBSET (1..3)}
    ELSE FeedsUpTo(EntriesOf(kind), MaxEntries)

TopicsOf(kind) ==
    IF kind = "topics"
    THEN {"compensation, benefits and rewards", "Compensation, Benefits and Rewards",
          "hr strategy and leadership", "payroll", NoneTopic}
    ELSE {"compensation, benefits and rewards"}

\* The arguments of a call and the clock value it is made at.
PerDay(target_date, now) ==
    [ per_day |-> TRUE, target_date |-> target_date, max_results |-> DefaultMaxResults,
      days_lookback |-> DefaultDaysLookback, now |-> now ]
Lookback(max_results, days_lookback, now) ==
    [ per_day |-> FALSE, target_date |-> NoDate, max_results |-> max_results,
      days_lookback |-> days_lookback, now |-> now ]

ModesOf(kind) ==
    CASE kind = "titles" ->
           {PerDay(d, DayLen) : d \in {NoDate, Date(1)}}
           \cup {Lookback(m, n, DayLen) : m \in {1, 2}, n \in {0, 1}}
      [] kind = "window" ->
           {PerDay(Date(1), 2 * DayLen), PerDay(NoDate, DayLen), PerDay(BadDate, DayLen),
            Lookback(2, 1, 2 * DayLen)}
      [] kind = "outages" ->
           {PerDay(NoDate, DayLen), Lookback(1, 1, DayLen)}
      [] kind = "topics" ->
           {PerDay(d, now) : d \in {NoDate, Date(0)}, now \in 0..MaxClock}
           \cup {Lookback(1, 1, now) : now \in 0..MaxClock}

NoFetch == [at |-> 0, articles |-> <<>>, parses |-> 0, attempts |-> 0, raised |-> FALSE]

Setup(kind, topic, mode, feeds) ==
    [ kind |-> kind, topic |-> topic, mode |-> mode, feeds |-> feeds,
      done |-> 0, first |-> NoFetch, second |-> NoFetch ]

\* The ticks that may pass between two calls of fetch_news.
Elapse == {0, 1, DayLen}

InitFetch ==
    /\ scenario = "fetch"
    /\ \E kind \in FetchKinds :
          \E topic \in TopicsOf(kind), mode \in ModesOf(kind), feeds \in FeedsOf(kind) :
              probe = Setup(kind, topic, mode, feeds)
    /\ clock = probe.mode.now
    /\ prompt_cache = EmptyDict
    /\ news_cache = EmptyDict
    /\ summary_cache = EmptyDict
    /\ conversation_history = EmptyDict
    /\ stamp = 0
    /\ result = Error("", NoTopic)
    /\ trace = NoTrace
    /\ first_stored = EmptyDict
    /\ appended = EmptyDict
    /\ stored_at = EmptyDict
    /\ threads = <<>>

\* fetch_news called with the run's arguments at clock value at.
FetchAt(at) ==
    LET m == probe.mode
        f == fetch_news(probe.topic, m.max_results, m.days_lookback, m.per_day,
                        m.target_date, at, WorldOf(probe.feeds))
    IN  [ at |-> at, articles |-> f.articles, parses |-> f.parses,
          attempts |-> f.attempts, raised |-> f.raised ]

Fetch ==
    /\ probe.done = 0
    /\ probe' = [probe EXCEPT !.done = 1, !.first = FetchAt(clock)]
    /\ UNCHANGED << prompt_cache, news_cache, summary_cache, conversation_history,
                    clock, stamp, result, trace, first_stored, appended, stored_at,
                    threads, scenario >>

\* The same call made again, the feeds serving what they served.
Refetch ==
    /\ probe.done = 1
    /\ \E d \in Elapse :
          /\ clock' = clock + d
          /\ probe' = [probe EXCEPT !.done = 2, !.second = FetchAt(clock + d)]
    /\ UNCHANGED << prompt_cache, news_cache, summary_cache, conversation_history,
                    stamp, result, trace, first_stored, appended, stored_at, threads,
                    scenario >>

\* One call of the handler for the topic of the run, in a run of kind
\* "outages": the feeds serve what they serve fetch_news.
Request ==
    /\ probe.kind = "outages"
    /\ stamp = 0
    /\ get_news_summaries(AskCompensation, NoneId, "prompts.json", "gpt-4-turbo",
          [ worlds |-> {WorldOf(probe.feeds)}, elapse |-> {0}, reads |-> {PromptRead},
            summ |-> {SummFirst}, tags |-> {TagTalent}, until |-> clock ])
    /\ UNCHANGED scenario

NextFetch == Fetch \/ Refetch

SpecFetch == InitFetch /\ [][NextFetch]_vars

\* The runs in which fetch_news is called on its own and the handler is
\* called once, in either order.
NextOutage == Fetch \/ Request

SpecOutage == InitFetch /\ [][NextOutage]_vars

\* -------------------------------------------------------- concurrent callers

\* The callers of a run in which get_news_summaries is called from several
\* threads at once.  The module takes no lock, so the threads interleave
\* between the statements that touch a shared dict: the lookup of lines
\* 253-255, the fetch of line 258, the store and sweep of lines 259-264, the
\* prompt and the loop of lines 267-301 (taken in one step), and the four
\* statements on the history of lines 303-312, the last in two steps as the
\* slice is taken before the assignment is made.
MaxThreads == 2
Threads == 1..MaxThreads

ConcInputs == {AskCompensation, AskLeadership}
ConcUser == "u1"
ConcEnv ==
    [ worlds |-> {WorldDown, WorldOne}, elapse |-> {0}, reads |-> {PromptRead},
      summ |-> {SummFirst}, tags |-> {TagTalent}, until |-> 0 ]

\* A thread before its call, and the entry of the history the user had in
\* i-th place before the run.
Waiting ==
    [ pc |-> "start", user_id |-> ConcUser, query |-> <<>>, topic |-> NoTopic,
      hit |-> FALSE, fetches |-> 0, articles |-> <<>>, summaries |-> <<>>,
      kept |-> <<>> ]

PriorEntry(i) ==
    [ role |-> "user", content |-> <<>>, timestamp |-> <<0, i>>,
      topic |-> "people development and culture", summaries |-> <<>> ]

\* The entry line 305 appends for thread t.
EntryOf(t) ==
    [ role |-> "user", content |-> threads[t].query,
      timestamp |-> <<clock, HistoryCap + t>>,
      topic |-> threads[t].topic, summaries |-> threads[t].summaries ]

InitThreads ==
    /\ scenario = "threads"
    /\ threads = [t \in Threads |-> Waiting]
    /\ \E prior \in {0, HistoryCap - 1} :
          /\ conversation_history =
                IF prior = 0 THEN EmptyDict
                ELSE Put(EmptyDict, ConcUser, [i \in 1..prior |-> PriorEntry(i)])
          /\ appended = conversation_history
    /\ prompt_cache = EmptyDict
    /\ news_cache = EmptyDict
    /\ summary_cache = EmptyDict
    /\ clock = 0
    /\ stamp = 0
    /\ result = Error("", NoTopic)
    /\ trace = NoTrace
    /\ first_stored = EmptyDict
    /\ stored_at = EmptyDict
    /\ probe = <<>>

\* A thread at the end of its call.
Finish(t, th, res) ==
    /\ threads' = [threads EXCEPT ![t] = [th EXCEPT !.pc = "done"]]
    /\ stamp' = stamp + 1
    /\ result' = res

\* Lines 234-256: the input is read and the key looked up.
Start(t) ==
    /\ threads[t].pc = "start"
    /\ \E user_input \in ConcInputs :
          LET heard == Reading(user_input)
              cache_key == CacheKey(heard.topic, clock)
              th == [threads[t] EXCEPT !.query = heard.query, !.topic = heard.topic]
          IN  IF ~ArticleHit(news_cache, cache_key)
              THEN /\ threads' = [threads EXCEPT ![t] = [th EXCEPT !.pc = "fetch"]]
                   /\ UNCHANGED << stamp, result >>
              ELSE LET articles == news_cache[cache_key]
                       th1 == [th EXCEPT !.hit = TRUE, !.articles = articles]
                   IN  IF articles = <<>>
                       THEN Finish(t, th1, Error(NoArticles, heard.topic))
                       ELSE /\ threads' = [threads EXCEPT ![t] =
                                               [th1 EXCEPT !.pc = "summarize"]]
                            /\ UNCHANGED << stamp, result >>
    /\ UNCHANGED << prompt_cache, news_cache, summary_cache, conversation_history,
                    clock, trace, first_stored, appended, stored_at, probe, scenario >>

\* Line 258.
FetchNews(t) ==
    /\ threads[t].pc = "fetch"
    /\ \E world \in ConcEnv.worlds :
          LET f == fetch_news(threads[t].topic, DefaultMaxResults,
                              DefaultDaysLookback, TRUE, NoDate, clock, world)
          IN  threads' = [threads EXCEPT ![t] =
                             [@ EXCEPT !.pc = "store", !.fetches = @ + 1,
                                       !.articles = f.articles]]
    /\ UNCHANGED << prompt_cache, news_cache, summary_cache, conversation_history,
                    clock, stamp, result, trace, first_stored, appended, stored_at,
                    probe, scenario >>

\* Lines 259-266.
Store(t) ==
    LET th == threads[t]
        cache_key == CacheKey(th.topic, clock)
    IN  /\ th.pc = "store"
        /\ news_cache' = Sweep(Put(news_cache, cache_key, th.articles), clock)
        /\ IF th.articles = <<>>
           THEN Finish(t, th, Error(NoArticles, th.topic))
           ELSE /\ threads' = [threads EXCEPT ![t] = [th EXCEPT !.pc = "summarize"]]
                /\ UNCHANGED << stamp, result >>
        /\ UNCHANGED << prompt_cache, summary_cache, conversation_history, clock,
                        trace, first_stored, appended, stored_at, probe, scenario >>

\* The Success of lines 314-320.
Success(th) ==
    [ status |-> "success", topic |-> th.topic, articles |-> th.summaries,
      cached_articles |-> th.hit, total_articles |-> Len(th.summaries) ]

\* Lines 267-302: the prompt, the loop over the articles, and `if user_id:`.
SummarizeAll(t) ==
    LET th == threads[t]
    IN  /\ th.pc = "summarize"
        /\ \E read \in ConcEnv.reads :
              LET lp == load_prompt(prompt_cache, "prompts.json", "NEWS_SUMMARIZER", read)
              IN  \E st \in SummaryLoop(th.articles, 1, th.topic, ConcEnv,
                                 [ summaries |-> <<>>, cache |-> summary_cache,
                                   summ_calls |-> <<>>, tag_calls |-> <<>>,
                                   tag_log |-> <<>> ]) :
                     LET th1 == [th EXCEPT !.summaries = st.summaries]
                     IN  /\ prompt_cache' = lp.cache
                         /\ summary_cache' = st.cache
                         /\ IF Truthy(th.user_id)
                            THEN /\ threads' = [threads EXCEPT ![t] =
                                                    [th1 EXCEPT !.pc = "h_check"]]
                                 /\ UNCHANGED << stamp, result >>
                            ELSE Finish(t, th1, Success(th1))
        /\ UNCHANGED << news_cache, conversation_history, clock, trace, first_stored,
                        appended, stored_at, probe, scenario >>

\* Line 303.
HistoryCheck(t) ==
    /\ threads[t].pc = "h_check"
    /\ threads' = [threads EXCEPT ![t].pc =
                       IF Has(conversation_history, threads[t].user_id)
                       THEN "h_append" ELSE "h_create"]
    /\ UNCHANGED << prompt_cache, news_cache, summary_cache, conversation_history,
                    clock, stamp, result, trace, first_stored, appended, stored_at,
                    probe, scenario >>

\* Line 304.
HistoryCreate(t) ==
    /\ threads[t].pc = "h_create"
    /\ conversation_history' = Put(conversation_history, threads[t].user_id, <<>>)
    /\ threads' = [threads EXCEPT ![t].pc = "h_append"]
    /\ UNCHANGED << prompt_cache, news_cache, summary_cache, clock, stamp, result,
                    trace, first_stored, appended, stored_at, probe, scenario >>

\* Lines 305-311: the entry goes to the end of the list the dict holds.
HistoryAppend(t) ==
    LET user_id == threads[t].user_id
    IN  /\ threads[t].pc = "h_append"
        /\ conversation_history' =
              Put(conversation_history, user_id,
                  Append(conversation_history[user_id], EntryOf(t)))
        /\ appended' =
              Put(appended, user_id,
                  Append(IF Has(appended, user_id) THEN appended[user_id] ELSE <<>>,
                         EntryOf(t)))
        /\ threads' = [threads EXCEPT ![t].pc = "h_slice"]
        /\ UNCHANGED << prompt_cache, news_cache, summary_cache, clock, stamp,
                        result, trace, first_stored, stored_at, probe, scenario >>

\* Line 312, right of the `=`: a new list of the last HistoryCap entries.
HistorySlice(t) ==
    /\ threads[t].pc = "h_slice"
    /\ threads' = [threads EXCEPT ![t] =
                       [@ EXCEPT !.pc = "h_assign",
                                 !.kept = LastN(conversation_history[threads[t].user_id],
                                                HistoryCap)]]
    /\ UNCHANGED << prompt_cache, news_cache, summary_cache, conversation_history,
                    clock, stamp, result, trace, first_stored, appended, stored_at,
                    probe, scenario >>

\* Line 312, the assignment, and the return of lines 313-320.
HistoryAssign(t) ==
    LET th == threads[t]
    IN  /\ th.pc = "h_assign"
        /\ conversation_history' = Put(conversation_history, th.user_id, th.kept)
        /\ Finish(t, th, Success(th))
        /\ UNCHANGED << prompt_cache, news_cache, summary_cache, clock, trace,
                        first_stored, appended, stored_at, probe, scenario >>

NextThreads ==
    \E t \in Threads :
        \/ Start(t) \/ FetchNews(t) \/ Store(t) \/ SummarizeAll(t)
        \/ HistoryCheck(t) \/ HistoryCreate(t) \/ HistoryAppend(t)
        \/ HistorySlice(t) \/ HistoryAssign(t)

SpecThreads == InitThreads /\ [][NextThreads]_vars

\* =================================================================== claims

\* A step that is one call of the handler.
IsCall == stamp' = stamp + 1

\* The titles of the summarizer calls of the last call whose every attempt
\* failed, and of those that were answered.
Unanswered(call) == \A k \in 1..StopAfterAttempt : ~call.responses[k].ok
FailedTitles(tr) == {c.title : c \in {x \in Range(tr.summ_calls) : Unanswered(x)}}
AnsweredTitles(tr) == {c.title : c \in {x \in Range(tr.summ_calls) : ~Unanswered(x)}}

\* C1: a user's history is at most 10 entries long and is the last min(n, 10)
\* of the n entries appended for the user, oldest first; after 11 appends the
\* first is gone and the 2nd to the 11th remain in order.
C1_HistoryIsRecentTail ==
    /\ DOMAIN conversation_history = DOMAIN appended
    /\ \A u \in DOMAIN appended :
          LET all == appended[u]
              n == Len(all)
              m == IF n < 10 THEN n ELSE 10
              kept == conversation_history[u]
          IN  /\ Len(kept) = m
              /\ \A i \in 1..m : kept[i] = all[n - m + i]
              /\ n = 11 => kept = SubSeq(all, 2, 11) /\ \A i \in 1..m : kept[i] # all[1]

C1_Witness ==
    \E u \in DOMAIN appended :
        /\ Len(appended[u]) = 11
        /\ Len(conversation_history[u]) = 10
        /\ conversation_history[u][1] = appended[u][2]

\* C2: a call that resolves to a topic for which a list was already stored on
\* the same day works on that first stored list and calls neither fetch_news
\* nor feedparser.parse.
C2_SameDayServedFromCache ==
    (trace.topic # NoTopic /\ trace.known) =>
        /\ trace.fetches = 0
        /\ trace.parses = 0
        /\ trace.articles = first_stored[<<trace.topic, trace.day>>]

C2_Witness ==
    /\ trace.topic # NoTopic /\ trace.known
    /\ trace.articles # <<>>
    /\ result.status = "success"
    /\ Cardinality(DOMAIN first_stored) >= 2

\* C3 as claimed: the result of the second of two calls for the same topic on
\* the same day carries cachedArticles = true, whatever the feeds served.
C3_SecondResultCarriesFlag ==
    (trace.topic # NoTopic /\ trace.known) =>
        /\ result.status = "success"
        /\ result.cached_articles

\* C3 as amended: the second call is served from the article cache; its
\* result carries cachedArticles = true when it is a Success, and it is an
\* Error without the field when the cached list is empty (NoArticles) or the
\* prompt cannot be loaded.
C3_SecondResultCachedWhenSuccess ==
    (trace.topic # NoTopic /\ trace.known) =>
        /\ trace.hit
        /\ result.status = "success" => result.cached_articles
        /\ result.status = "error" =>
              \/ trace.articles = <<>> /\ result = Error(NoArticles, trace.topic)
              \/ trace.opened /\ ~trace.read_ok
                 /\ result = Error(PromptLoadFailure, NoTopic)
        /\ (trace.articles # <<>> /\ (~trace.opened \/ trace.read_ok)) =>
              result.status = "success"

C3_Witness ==
    /\ trace.topic # NoTopic /\ trace.known
    /\ result.status = "success"
    /\ result.cached_articles

\* C4: when the summarizer fails for some articles of a call that reached the
\* loop, the call still returns Success, with one record for every other
\* article and none for the failed ones, in the order of the article list,
\* and totalArticles is the number of records.
C4_FailuresAreSkipped ==
    trace.looped =>
        LET failed == FailedTitles(trace)
            others == SelectSeq(trace.articles, LAMBDA a : a.title \notin failed)
        IN  /\ result.status = "success"
            /\ Len(result.articles) = Len(others)
            /\ \A i \in DOMAIN others :
                  /\ result.articles[i].title = others[i].title
                  /\ result.articles[i].url = others[i].url
            /\ result.total_articles = Len(result.articles)

C4_Witness ==
    /\ trace.looped
    /\ FailedTitles(trace) # {}
    /\ result.status = "success"
    /\ result.total_articles = 1
    /\ Len(trace.articles) = 2

\* C5: a summary stored under (title, topic) is never removed or replaced; a
\* later call's record for an article with that title under that topic is
\* cached = true with the stored text, and neither the summarizer nor the
\* classifier is called for it; a record is cached = false exactly when the
\* summarizer answered for its article during the call.
C5_StoredSummaryIsServed ==
    [][ /\ \A k \in DOMAIN summary_cache :
              k \in DOMAIN summary_cache' /\ summary_cache'[k] = summary_cache[k]
        /\ (IsCall /\ result'.status = "success") =>
              \A i \in DOMAIN result'.articles :
                  LET record == result'.articles[i]
                      key == <<record.title, result'.topic>>
                      called == {c.title : c \in Range(trace'.summ_calls)}
                  IN  /\ Has(summary_cache, key) =>
                            /\ record.cached
                            /\ record.summary = summary_cache[key]
                            /\ record.title \notin called
                            /\ record.title \notin Range(trace'.tag_calls)
                      /\ ~record.cached <=>
                            /\ ~Has(summary_cache, key)
                            /\ record.title \in AnsweredTitles(trace')
                      /\ record.summary = summary_cache'[key]
      ]_vars

C5_Witness ==
    /\ result.status = "success"
    /\ \E i, j \in DOMAIN result.articles :
          /\ result.articles[i].cached
          /\ result.articles[i].summary = summary_cache[<<result.articles[i].title, result.topic>>]
          /\ ~result.articles[j].cached
    /\ trace.summ_calls # <<>>

\* C6: a call changes the history exactly when it returns Success and was made
\* with a user id (one that is neither None nor empty): then one entry, with
\* the topic and the summaries of the result, is appended to that user's list
\* and to no other; every other call, and every step that is not a call,
\* leaves the history of every user as it was and creates no key.
C6_HistoryChangesOnTrackedSuccess ==
    [][ LET user_id == trace'.user_id
            tracked == user_id # NoneId /\ user_id # ""
            old == IF Has(conversation_history, user_id)
                   THEN conversation_history[user_id] ELSE <<>>
        IN  IF IsCall /\ result'.status = "success" /\ tracked
            THEN /\ conversation_history' # conversation_history
                 /\ DOMAIN conversation_history' = DOMAIN conversation_history \cup {user_id}
                 /\ \A u \in DOMAIN conversation_history :
                        u # user_id => conversation_history'[u] = conversation_history[u]
                 /\ \E entry \in Range(conversation_history'[user_id]) :
                        /\ entry.topic = result'.topic
                        /\ entry.summaries = result'.articles
                        /\ conversation_history'[user_id] =
                              IF Len(old) < HistoryCap THEN Append(old, entry)
                              ELSE Append(Tail(old), entry)
            ELSE conversation_history' = conversation_history
      ]_vars

C6_Witness ==
    /\ result.status = "success"
    /\ trace.user_id = "u2"
    /\ Has(conversation_history, "u1")
    /\ Has(conversation_history, "u2")
    /\ Len(conversation_history["u2"]) = 1
    /\ ~Has(conversation_history, "")
    /\ ~Has(conversation_history, NoneId)

\* The entries fetch_news goes through in a call with the run's arguments:
\* those of the topic's feeds that parse, in feed-then-entry order, each with
\* its feed.
RECURSIVE Occurrences(_, _, _)
Occurrences(feeds, i, world) ==
    IF i > Len(feeds) THEN <<>>
    ELSE LET content == world[feeds[i].url]
             here == IF content.ok /\ content.entries # <<>>
                     THEN [j \in 1..Len(content.entries) |->
                              [feed |-> feeds[i], entry |-> content.entries[j]]]
                     ELSE <<>>
         IN  here \o Occurrences(feeds, i + 1, world)

\* Those of the run, each with its title as line 161 reads it and that title
\* lower-cased.
Occ ==
    LET raw == Occurrences(RSS_FEEDS(LowerTopic(probe.topic)), 1, WorldOf(probe.feeds))
    IN  [k \in 1..Len(raw) |->
            [ feed |-> raw[k].feed, entry |-> raw[k].entry,
              title |-> Strip(raw[k].entry.title),
              lower |-> Lower(Strip(raw[k].entry.title)) ]]

Dated(o) == o.entry.published.kind = "date"
StampOf(o, at) == IF Dated(o) THEN o.entry.published.dt ELSE Naive(at)

\* The first clock value of the window of a per-day call made at clock value
\* at, and whether a timestamp is in the window of the run's mode, by its
\* clock value alone.
DayStart(at) ==
    IF probe.mode.target_date.kind = "date"
    THEN probe.mode.target_date.day * DayLen ELSE at - (at % DayLen)
InWindow(dt, at) ==
    IF probe.mode.per_day
    THEN DayStart(at) <= dt.clock /\ dt.clock < DayStart(at) + DayLen
    ELSE dt.clock >= at - probe.mode.days_lookback * DayLen

\* An entry qualifies when it has a title and is in the window; it wins when
\* no earlier entry with its title, ignoring case, qualifies.
Qualifies(o, at) == o.title # <<>> /\ InWindow(StampOf(o, at), at)
Wins(occ, k, at) ==
    /\ Qualifies(occ[k], at)
    /\ \A h \in 1..(k - 1) : Qualifies(occ[h], at) => occ[h].lower # occ[k].lower

\* What a fetch at clock value at has to return: the winners in order, cut
\* to max_results in lookback mode.
Expected(occ, at) ==
    LET winners == SelectSeq([k \in 1..Len(occ) |-> k], LAMBDA k : Wins(occ, k, at))
        kept == IF probe.mode.per_day \/ Len(winners) <= probe.mode.max_results
                THEN winners ELSE SubSeq(winners, 1, probe.mode.max_results)
    IN  [i \in 1..Len(kept) |->
            [ title |-> occ[kept[i]].title, url |-> occ[kept[i]].entry.link,
              source |-> occ[kept[i]].feed.name,
              publishedAt |-> StampOf(occ[kept[i]], at) ]]

Returned(fetched) ==
    [i \in 1..Len(fetched.articles) |->
        [ title |-> fetched.articles[i].title, url |-> fetched.articles[i].url,
          source |-> fetched.articles[i].source.name,
          publishedAt |-> fetched.articles[i].publishedAt ]]

\* The article of a fetch built from entry k, if any.
Included(o, fetched) ==
    \E i \in 1..Len(fetched.articles) :
        /\ fetched.articles[i].url = o.entry.link
        /\ fetched.articles[i].source.name = o.feed.name

Fetches == IF probe.done = 0 THEN {} ELSE IF probe.done = 1 THEN {probe.first}
           ELSE {probe.first, probe.second}

\* C7: the list one fetch returns holds no article with an empty title and no
\* two articles whose titles are equal ignoring case, whatever the topic, the
\* mode and the feeds' content.
C7_TitlesNonEmptyAndUnique ==
    \A fetched \in Fetches :
        \A i, j \in 1..Len(fetched.articles) :
            /\ fetched.articles[i].title # <<>>
            /\ i # j => Lower(fetched.articles[i].title) # Lower(fetched.articles[j].title)

C7_Witness ==
    LET occ == Occ
    IN  /\ probe.done >= 1
        /\ Len(probe.first.articles) = 2
        /\ \E k \in 1..Len(occ) : occ[k].entry.title = <<>>
        /\ \E h, k \in 1..Len(occ) :
              h < k /\ occ[h].title # <<>> /\ occ[h].lower = occ[k].lower

\* C8 as claimed: when a title occurs, ignoring case, in entries of two feeds
\* of the topic, the fetch returns exactly one article with it, built from
\* its first occurrence in feed-then-entry order; and a second fetch over the
\* same content returns the same list.
C8_FirstOccurrenceWins ==
    LET occ == Occ
    IN  /\ \A fetched \in Fetches :
              \A h, k \in 1..Len(occ) :
                  ( /\ h < k /\ occ[h].title # <<>> /\ occ[h].lower = occ[k].lower
                    /\ occ[h].feed # occ[k].feed
                    /\ \A g \in 1..(h - 1) : occ[g].lower # occ[h].lower ) =>
                      /\ Included(occ[h], fetched)
                      /\ Cardinality({i \in 1..Len(fetched.articles) :
                            Lower(fetched.articles[i].title) = occ[h].lower}) = 1
        /\ probe.done = 2 => probe.second.articles = probe.first.articles

\* C8 as amended: a fetch returns, for every title, at most one article: the
\* one built from the first entry with that title, in feed-then-entry order
\* over the feeds that parsed, that is inside the window, and none when no
\* entry with the title is inside it or when lookback mode reached
\* max_results before it; a second fetch over the same content returns the
\* same list when it reads the same clock value, or when it is a per-day
\* fetch for the same day and every titled entry has a parsable timestamp.
C8_FirstQualifyingOccurrenceWins ==
    LET occ == Occ
    IN  /\ \A fetched \in Fetches : Returned(fetched) = Expected(occ, fetched.at)
        /\ probe.done = 2 =>
              LET same_clock == probe.second.at = probe.first.at
                  same_day == /\ probe.mode.per_day
                              /\ DayStart(probe.second.at) = DayStart(probe.first.at)
                  all_dated == \A k \in 1..Len(occ) : occ[k].title # <<>> => Dated(occ[k])
              IN  (same_clock \/ (same_day /\ all_dated)) =>
                      probe.second.articles = probe.first.articles

C8_Witness ==
    LET occ == Occ
    IN  /\ probe.done = 2
        /\ probe.second.at > probe.first.at
        /\ probe.second.articles = probe.first.articles
        /\ Len(probe.first.articles) = 1
        /\ \E h, k \in 1..Len(occ) :
              /\ h < k /\ occ[h].lower = occ[k].lower /\ occ[h].feed # occ[k].feed
              /\ ~Qualifies(occ[h], probe.first.at) /\ Qualifies(occ[k], probe.first.at)
              /\ Included(occ[k], probe.first) /\ ~Included(occ[h], probe.first)

\* C9: in a per-day fetch with a valid target_date, an entry with a title not
\* yet seen and a parsable timestamp is included exactly when the clock value
\* t of the timestamp satisfies dayStart <= t < dayStart + 1 day, whether the
\* timestamp carries a zone or not.
C9_PerDayWindowByClockValue ==
    (probe.mode.per_day /\ probe.mode.target_date.kind = "date") =>
        LET occ == Occ
        IN  \A fetched \in Fetches :
                \A k \in 1..Len(occ) :
                    LET t == occ[k].entry.published.dt.clock
                        day_start == probe.mode.target_date.day * DayLen
                        seen == \E h \in 1..(k - 1) :
                                    Included(occ[h], fetched) /\ occ[h].lower = occ[k].lower
                    IN  (occ[k].title # <<>> /\ Dated(occ[k]) /\ ~seen) =>
                            (Included(occ[k], fetched) <=>
                                (day_start <= t /\ t < day_start + DayLen))

C9_Witness ==
    LET occ == Occ
    IN  /\ probe.mode.per_day /\ probe.mode.target_date.kind = "date"
        /\ probe.done >= 1
        /\ \E h, k \in 1..Len(occ) :
              /\ Dated(occ[h]) /\ occ[h].entry.published.dt.aware
              /\ occ[h].entry.published.dt.clock = probe.mode.target_date.day * DayLen
              /\ Included(occ[h], probe.first)
              /\ Dated(occ[k]) /\ occ[k].entry.published.dt.aware
              /\ occ[k].entry.published.dt.clock =
                    (probe.mode.target_date.day + 1) * DayLen
              /\ occ[h].lower # occ[k].lower
              /\ ~Included(occ[k], probe.first)

\* C11: whichever feeds of the topic fail to parse, the fetch returns without
\* raising after one attempt, having gone through the remaining feeds in
\* registry order: the result is what the feeds that parsed qualify for, and
\* a per-day fetch has tried every feed; with every feed down the result is
\* the empty list, and the call of the handler that made the fetch ends with
\* the NoArticles error.
C11_FeedFailuresAreSkipped ==
    LET occ == Occ
        feeds == RSS_FEEDS(LowerTopic(probe.topic))
        world == WorldOf(probe.feeds)
        down == {i \in 1..Len(feeds) : ~world[feeds[i].url].ok}
    IN  probe.kind = "outages" =>
          /\ \A fetched \in Fetches :
                /\ ~fetched.raised
                /\ Returned(fetched) = Expected(occ, fetched.at)
                /\ probe.mode.per_day => fetched.parses = Len(feeds)
                /\ \A k \in 1..Len(occ) :
                      (probe.mode.per_day /\ Wins(occ, k, fetched.at)) =>
                          Included(occ[k], fetched)
                /\ down = 1..Len(feeds) => fetched.articles = <<>>
          /\ stamp = 1 =>
                /\ trace.fetches = 1 /\ trace.parses = Len(feeds)
                /\ down = 1..Len(feeds) =>
                      /\ trace.articles = <<>>
                      /\ result = Error(NoArticles, trace.topic)
                /\ (\E k \in 1..Len(occ) : occ[k].title # <<>>) =>
                      result.status = "success"

C11_Witness ==
    LET feeds == RSS_FEEDS(LowerTopic(probe.topic))
        world == WorldOf(probe.feeds)
    IN  /\ probe.kind = "outages" /\ probe.done >= 1 /\ stamp = 1
        /\ ~world[feeds[1].url].ok /\ ~world[feeds[2].url].ok /\ world[feeds[3].url].ok
        /\ Len(probe.first.articles) = 2
        /\ result.status = "success"

\* C10: a call whose read of the prompt file fails returns the prompt-load
\* Error, which carries a message and no article, calls the summarizer and
\* the classifier for no article, and leaves the summary cache, the prompt
\* cache and the history as they were.
C10_PromptFailureAborts ==
    [][ (IsCall /\ trace'.opened /\ ~trace'.read_ok) =>
            /\ result' = Error(PromptLoadFailure, NoTopic)
            /\ DOMAIN result' = {"status", "message", "about"}
            /\ ~trace'.looped
            /\ trace'.summ_calls = <<>>
            /\ trace'.tag_calls = <<>>
            /\ UNCHANGED << summary_cache, prompt_cache, conversation_history >>
      ]_vars

C10_Witness ==
    /\ trace.opened /\ ~trace.read_ok
    /\ result = Error(PromptLoadFailure, NoTopic)
    /\ trace.articles # <<>>
    /\ summary_cache # EmptyDict
    /\ prompt_cache # EmptyDict
    /\ conversation_history # EmptyDict

\* C12: a call that resolves to topic A works on A's own entry when it is
\* served from the article cache, creates no key but A's, and neither
\* replaces nor removes the entry of another topic for the day the call ends
\* on; at every moment the cache holds, for every topic for which a list was
\* stored on the current day, the list first stored for it on that day.
C12_TopicsDoNotInterfere ==
    [][ /\ IsCall =>
              LET A == trace'.topic
                  own == <<A, trace'.day>>
              IN  /\ trace'.hit =>
                        /\ Has(news_cache, own)
                        /\ trace'.articles = news_cache[own]
                  /\ DOMAIN news_cache' \ DOMAIN news_cache \subseteq {own}
                  /\ \A k \in DOMAIN news_cache :
                        (k[1] # A /\ k[2] = DayOf(clock')) =>
                            /\ Has(news_cache', k)
                            /\ news_cache'[k] = news_cache[k]
        /\ \A k \in DOMAIN first_stored' :
              k[2] = DayOf(clock') =>
                  /\ Has(news_cache', k)
                  /\ news_cache'[k] = first_stored'[k]
      ]_vars

C12_Witness ==
    LET A == "compensation, benefits and rewards"
        B == "hr strategy and leadership"
        D == DayOf(clock)
    IN  /\ trace.topic = A /\ trace.hit /\ trace.day = D
        /\ Has(first_stored, <<A, D>>) /\ Has(first_stored, <<B, D>>)
        /\ Has(news_cache, <<B, D>>)
        /\ news_cache[<<B, D>>] = first_stored[<<B, D>>]
        /\ Len(news_cache[<<A, D>>]) # Len(news_cache[<<B, D>>])
        /\ D = 1
        /\ stamp = MaxRequests

\* C13: the topic of a call is the first topic of the registry whose
\* identifier occurs, letter case aside, in the sanitized input; the call
\* returns the UnknownTopic error (the message of line 251, which lists the
\* five topics) exactly when the sanitized input is not empty and no identifier occurs in it.  The
\* input "Tell me about compensation, benefits and rewards please" resolves to
\* that topic, and "what's new" is answered with UnknownTopic.
C13_FirstRegistryTopicWins ==
    stamp > 0 =>
        LET query == Reading(trace.input).query
            lowered == Lower(query)
            found == {i \in DOMAIN allowed_topics :
                         LET identifier == Lower(Chars(allowed_topics[i]))
                         IN  Contains(lowered, identifier)}
            Occurs(i) == i \in found
            unknown == result.status = "error" /\ result.message = UnknownTopic
        IN  /\ \A i \in DOMAIN allowed_topics :
                  (Occurs(i) /\ \A j \in 1..(i - 1) : ~Occurs(j)) =>
                      /\ trace.topic = allowed_topics[i]
                      /\ result.status = "success" => result.topic = allowed_topics[i]
            /\ unknown <=> (query # <<>> /\ \A i \in DOMAIN allowed_topics : ~Occurs(i))
            /\ trace.input = AskCompensation =>
                  trace.topic = "compensation, benefits and rewards"
            /\ trace.input = AskNews => unknown

C13_Witness ==
    /\ scenario = "inputs" /\ stamp = MaxRequests
    /\ trace.input = AskTwoTopics
    /\ trace.topic = "hr strategy and leadership"
    /\ result.status = "success"
    /\ Has(news_cache, <<"workforce compliance and regulation", 0>>)

\* The threads that have called fetch_news for a topic (on the one day of a
\* run with concurrent callers).
Fetchers(topic) == {t \in Threads : threads[t].topic = topic /\ threads[t].fetches > 0}

\* C14 as claimed: concurrent calls for one (topic, day) make at most one call
\* of fetch_news between them, in every interleaving.
C14_FetchedOncePerKey ==
    \A topic \in TopicSet : Cardinality(Fetchers(topic)) <= 1

\* C14 as amended: calls are not coalesced.  A call whose lookup of line 253
\* finds no entry calls fetch_news itself, once, whatever the other calls in
\* progress are doing, and a call whose lookup finds an entry works on that
\* entry and calls fetch_news not at all; so the calls in progress for one
\* (topic, day) make between one call of fetch_news and one each.
C14_EveryMissFetches ==
    [][ \A t \in Threads :
          LET was == threads[t]
              now == threads'[t]
              key == CacheKey(now.topic, clock)
          IN  /\ (was.pc = "start" /\ now.pc # "start") =>
                    IF Has(news_cache, key)
                    THEN /\ now.hit /\ now.pc # "fetch"
                         /\ now.articles = news_cache[key]
                    ELSE ~now.hit /\ now.pc = "fetch"
              /\ now.fetches # was.fetches =>
                    was.pc = "fetch" /\ now.fetches = was.fetches + 1
              /\ now.pc \notin {"start", "fetch"} =>
                    /\ now.fetches = (IF now.hit THEN 0 ELSE 1)
                    /\ LET callers == {u \in Threads : threads'[u].topic = now.topic}
                           fetchers == {u \in callers : threads'[u].fetches > 0}
                       IN  /\ 1 <= Cardinality(fetchers)
                           /\ Cardinality(fetchers) <= Cardinality(callers)
      ]_vars

C14_Witness ==
    \E t, u \in Threads :
        /\ t # u
        /\ threads[t].pc = "done" /\ threads[u].pc = "done"
        /\ threads[t].topic = threads[u].topic
        /\ threads[t].fetches = 1 /\ threads[u].fetches = 1
        /\ threads[t].articles # threads[u].articles
        /\ news_cache[CacheKey(threads[t].topic, clock)] = threads[t].articles

\* C15: when every concurrent call has returned, each entry appended for a
\* user is in the user's history unless the cap of 10 evicted it: the last 10
\* entries appended, at least, are all there, whatever the interleaving of
\* the statements of lines 303-312.
C15_NoEntryLost ==
    (\A t \in Threads : threads[t].pc = "done") =>
        \A u \in DOMAIN appended :
            /\ Has(conversation_history, u)
            /\ \A entry \in Range(LastN(appended[u], HistoryCap)) :
                  entry \in Range(conversation_history[u])

\* C16: each external call made for an article runs under the retry of at
\* most 3 attempts, and the handling of its failure comes only after the
\* third failed attempt: an article is skipped only when three calls of the
\* summarizer failed for it, and a record carries the default tag on account
\* of a failure only when three calls of the classifier failed; a classifier
\* that answers at its second or third call decides the tag.
C16_ExternalCallsRetried ==
    trace.looped =>
        /\ \A call \in Range(trace.summ_calls) :
              /\ call.attempts <= 3
              /\ call.raised <=> \A k \in 1..3 : ~call.responses[k].ok
              /\ call.raised <=>
                    \A i \in DOMAIN result.articles :
                        result.articles[i].title # call.title
        /\ \A call \in Range(trace.tag_log) :
              LET answered == {k \in 1..3 : call.answers[k].ok}
                  first == CHOOSE k \in answered : \A j \in answered : k <= j
                  detected == Strip(call.answers[first].text)
              IN  IF answered = {} \/ detected \notin TagSet
                  THEN call.tag = topic_map(trace.topic)
                  ELSE call.tag = detected

C18_TagAlwaysFromClosedSet ==
    trace.looped =>
        LET Five == { <<"L","e","a","d","e","r","s","h","i","p">>,
                      <<"C","o","m","p","l","i","a","n","c","e">>,
                      <<"T","a","l","e","n","t">>,
                      <<"C","o","m","p","e","n","s","a","t","i","o","n">>,
                      <<"C","u","l","t","u","r","e">> }
            fresh == {i \in DOMAIN result.articles : ~result.articles[i].cached}
        IN  /\ result.status = "success"
            /\ {call.title : call \in Range(trace.tag_log)} = AnsweredTitles(trace)
            /\ \A i \in fresh : result.articles[i].tag \in Five
            /\ \A call \in Range(trace.tag_log) :
                  LET answer == call.answers[1]
                  IN  /\ call.stored
                      /\ Has(summary_cache, <<call.title, trace.topic>>)
                      /\ \E i \in fresh :
                            /\ result.articles[i].title = call.title
                            /\ result.articles[i].tag = call.tag
                            /\ result.articles[i].summary =
                                  summary_cache[<<call.title, trace.topic>>]
                      /\ call.tag \in Five
                      /\ (answer.ok /\ Strip(answer.text) \in Five) =>
                            call.tag = Strip(answer.text)
                      /\ (~answer.ok \/ Strip(answer.text) \notin Five) =>
                            call.tag = topic_map(trace.topic)

C18_Witness ==
    /\ trace.looped /\ result.status = "success"
    /\ \E call \in Range(trace.tag_log) :
          /\ call.answers = TagOther
          /\ call.stored
          /\ call.tag = <<"C","o","m","p","e","n","s","a","t","i","o","n">>
    /\ \E i \in DOMAIN result.articles :
          /\ ~result.articles[i].cached
          /\ result.articles[i].tag = <<"C","o","m","p","e","n","s","a","t","i","o","n">>

\* C19 as claimed: an entry of the article cache is served only while it is at
\* most 1 day old, counted from its insertion; entries leave the cache only in
\* the sweep that follows an insertion; and when that sweep is done the cache
\* holds no entry older than 1 day, and still holds every entry that is not.
C19_RetentionSinceInsertion ==
    [][ LET own == <<trace'.topic, trace'.day>>
        IN  /\ (IsCall /\ trace'.hit) => clock' - stored_at[own] <= DayLen
            /\ DOMAIN news_cache \ DOMAIN news_cache' # {} =>
                  IsCall /\ trace'.fetches = 1
            /\ (IsCall /\ trace'.fetches = 1) =>
                  /\ \A k \in DOMAIN news_cache' :
                        clock' - stored_at'[k] <= DayLen
                  /\ \A k \in DOMAIN news_cache \cup {own} :
                        clock' - stored_at'[k] <= DayLen => Has(news_cache', k)
      ]_vars

\* C19 as amended: the sweep counts an entry's age from the start of the day
\* in its key, not from its insertion.  An entry is served only on the day of
\* its key, so less than 1 day after its insertion; entries leave the cache
\* only in the sweep that follows an insertion; and when that sweep is done
\* the cache holds exactly the entries, the new one included, whose day began
\* at most 1 day before: none of them was inserted more than 1 day before,
\* but an entry inserted less than 1 day before, on a day that began more
\* than 1 day before, is gone.
C19_RetentionByKeyDay ==
    [][ LET own == <<trace'.topic, trace'.day>>
            Begun(k) == k[2] * DayLen
        IN  /\ (IsCall /\ trace'.hit) =>
                  /\ DayOf(clock') = own[2]
                  /\ clock' - stored_at[own] < DayLen
            /\ DOMAIN news_cache \ DOMAIN news_cache' # {} =>
                  IsCall /\ trace'.fetches = 1
            /\ (IsCall /\ trace'.fetches = 1) =>
                  /\ \A k \in DOMAIN news_cache' :
                        /\ clock' - Begun(k) <= DayLen
                        /\ clock' - stored_at'[k] <= DayLen
                  /\ \A k \in DOMAIN news_cache \cup {own} :
                        clock' - Begun(k) <= DayLen =>
                            /\ Has(news_cache', k)
                            /\ k # own => news_cache'[k] = news_cache[k]
      ]_vars

C19_Witness ==
    /\ trace.fetches = 1 /\ stamp = 2
    /\ Has(news_cache, <<trace.topic, trace.day>>)
    /\ \E k \in DOMAIN stored_at :
          /\ ~Has(news_cache, k)
          /\ stored_at[<<trace.topic, trace.day>>] - stored_at[k] < DayLen

\* C20: an empty list that fetch_news returned is stored in the article cache
\* as any list is, and the call returns the NoArticles error; every later call
\* for the topic on that day returns the NoArticles error too, without calling
\* fetch_news or the summarizer, whatever the feeds serve by then, and leaves
\* the summary cache and the history as they were.
C20_EmptyListIsCached ==
    [][ IsCall =>
          LET topic == trace'.topic
              key == <<topic, trace'.day>>
          IN  /\ (trace'.fetches = 1 /\ trace'.articles = <<>>) =>
                    /\ result' = Error(NoArticles, topic)
                    /\ DayOf(clock') = trace'.day =>
                          Has(news_cache', key) /\ news_cache'[key] = <<>>
              /\ (topic # NoTopic /\ Has(first_stored, key) /\ first_stored[key] = <<>>) =>
                    /\ result' = Error(NoArticles, topic)
                    /\ trace'.fetches = 0 /\ trace'.parses = 0
                    /\ ~trace'.opened
                    /\ trace'.summ_calls = <<>> /\ trace'.tag_calls = <<>>
                    /\ UNCHANGED << news_cache, summary_cache, conversation_history >>
      ]_vars

C20_Witness ==
    /\ trace.hit /\ trace.articles = <<>>
    /\ result = Error(NoArticles, trace.topic)
    /\ stamp = MaxRequests
    /\ \E k \in DOMAIN news_cache :
          k[2] = trace.day /\ k[1] # trace.topic /\ news_cache[k] # <<>>
    /\ first_stored[<<trace.topic, trace.day>>] = <<>>

====
